---- MODULE Spec2Model ----
(***************************************************************************)
(* A model of yb::client::YBTableCreator (src/yb/client/table_creator.cc): *)
(* the builder's setters and the blocking Create() call, together with the *)
(* collaborators Create() talks to (the master's catalog, the topology     *)
(* query, the readiness waiter and the monotonic clock).                   *)
(*                                                                         *)
(* Create() is a blocking call: it is modelled in the segments between     *)
(* its two blocking collaborator calls (CreateTable and                    *)
(* WaitForCreateTableToFinish), with pc holding the caller's position.     *)
(***************************************************************************)
EXTENDS Integers, Sequences, FiniteSets, TLC

\* ------------------------------------------------------------- bounds

\* Builder setter calls made on the one creator object.
MaxSetterCalls == 3

\* Create() calls made on the one creator object.
MaxCreateCalls == 2

\* ---------------------------------------------------------- value sets

\* Status values (yb::Status): a code and a message, the message kept as the
\* sequence of its parts so that a prepended prefix is visible.
Status(code, msg) == [code |-> code, msg |-> msg]

StatusOK == Status("OK", <<>>)

\* No status yet (a local that was not assigned in this call).
NoStatus == Status("none", <<>>)

\* Table identifiers: empty, supplied by the caller, or assigned by the master.
EmptyId == [kind |-> "empty", n |-> 0]

CallerId == [kind |-> "caller", n |-> 0]

GenId(n) == [kind |-> "gen", n |-> n]

\* YBTableName: a namespace and a local table name.
TableNames ==
  { [ns |-> "user", table |-> ""],
    [ns |-> "user", table |-> "t"],
    [ns |-> "system", table |-> "t"] }

\* The schema pointer schema_: null, a caller-owned schema (with the tablet
\* count its table properties declare), the schema Create() synthesizes, or a
\* pointer to a synthesized schema that has been destroyed.
NullSchema == [ptr |-> "null", num_tablets |-> 0]

ExtSchemas == { [ptr |-> "ext", num_tablets |-> 0], [ptr |-> "ext", num_tablets |-> 3] }

RedisSchema == [ptr |-> "redis", num_tablets |-> 0]

DanglingSchema == [ptr |-> "dangling", num_tablets |-> 0]

\* Tablet counts a freed schema object may be read as.
GarbageNumTablets == {0, 3}

\* Values the caller passes to num_tablets().
ExplicitCounts == {0, 5}

\* The client-side enum YBTableType, by its numeric values.
YBTableTypes == {2, 3, 5}

\* MonoDelta timeout_: not initialized, or a number of clock ticks.
NoTimeout == [initialized |-> FALSE, ticks |-> 0]

CallerTimeouts == { [initialized |-> TRUE, ticks |-> 1] }

\* What NumTabletsForUserTable may answer: a recommendation or a failure.
TopologyResults ==
  { [ok |-> TRUE, value |-> 2, status |-> StatusOK],
    [ok |-> FALSE, value |-> 0, status |-> Status("IllegalState", <<"No live tservers">>)] }

\* Failures, other than AlreadyPresent, the master may answer a creation with.
MasterRejections ==
  { Status("InvalidArgument", <<"Invalid table definition">>),
    Status("ServiceUnavailable", <<"Leader not ready">>) }

\* ------------------------------------------------------------ variables

VARIABLES
  \* the creator's fields
  table_name_, table_type_, creator_role_name_, table_id_, num_tablets_,
  schema_, index_info_, timeout_, wait_,
  \* the running Create() call: position and locals
  pc, req, deadline, s,
  \* collaborators
  rpc, waiter, catalog, now,
  \* what the caller and an observer see
  result, call, ncalls, nsetters

specVars ==
  <<table_name_, table_type_, creator_role_name_, table_id_, num_tablets_,
    schema_, index_info_, timeout_, wait_>>

localVars == <<req, deadline, s>>

vars ==
  <<table_name_, table_type_, creator_role_name_, table_id_, num_tablets_,
    schema_, index_info_, timeout_, wait_, pc, req, deadline, s, rpc, waiter,
    catalog, now, result, call, ncalls, nsetters>>

\* ------------------------------------------------------ pure helpers

\* YBTable::ClientToPBTableType: the client enum to the wire enum TableType.
ClientToPBTableType(t) ==
  CASE t = 2 -> "YQL_TABLE_TYPE"
    [] t = 3 -> "REDIS_TABLE_TYPE"
    [] t = 4 -> "PGSQL_TABLE_TYPE"
    [] t = 5 -> "TRANSACTION_STATUS_TABLE_TYPE"

\* client_->default_admin_operation_timeout(), in clock ticks.
DefaultAdminOperationTimeout == 2

\* YBTableName::is_system().
IsSystem(name) == name.ns = "system"

\* const char *object_type = index_info_.has_indexed_table_id() ? "index" : "table"
ObjectType(ii) == IF ii.has_indexed_table_id THEN "index" ELSE "table"

\* Mutant: the transaction-status kind is forgotten.
SynthesizesSchemaRedisOnly(tt) == tt = "REDIS_TABLE_TYPE"

\* The kinds for which Create() makes its own schema.
SynthesizesSchema(tt) ==
  tt = "REDIS_TABLE_TYPE" \/ tt = "TRANSACTION_STATUS_TABLE_TYPE"

\* The schema Create() works with once the synthesis block has run.
SchemaInCreate(tt, sch) == IF SynthesizesSchema(tt) THEN RedisSchema ELSE sch

\* redis_schema is a local unique_ptr: when Create() returns, the schema it
\* owns is destroyed and schema_ is left pointing at it.
SchemaOnReturn(sch) == IF sch.ptr = "redis" THEN DanglingSchema ELSE sch

\* Whether the tablet count has to come from NumTabletsForUserTable.
NeedsTopologyQuery(explicit, declared, name) ==
  ~(explicit > 0) /\ ~(declared > 0) /\ ~IsSystem(name)

\* Mutant: the schema's declared count is tried before the explicit one.
ResolveNumTabletsSchemaFirst(explicit, declared, name, recommended) ==
  IF declared > 0 THEN declared
  ELSE IF explicit > 0 THEN explicit
  ELSE IF IsSystem(name) THEN 1
  ELSE recommended

\* The number of tablets set up for the request.
ResolveNumTablets(explicit, declared, name, recommended) ==
  IF explicit > 0 THEN explicit
  ELSE IF declared > 0 THEN declared
  ELSE IF IsSystem(name) THEN 1
  ELSE recommended

\* Mutant: the legacy index fields are set outside the test for an index.
BuildRequestLegacyAlways(name, tt, role, id, sch, n, ii) ==
  [ name |-> name,
    table_type |-> tt,
    has_creator_role_name |-> role # "",
    creator_role_name |-> role,
    has_table_id |-> id # EmptyId,
    table_id |-> id,
    schema |-> [ptr |-> sch.ptr, num_tablets |-> n],
    num_tablets |-> n,
    has_index_info |-> ii.has_indexed_table_id,
    index_info |-> IF ii.has_indexed_table_id THEN ii ELSE [has_indexed_table_id |-> FALSE],
    has_indexed_table_id |-> TRUE,
    indexed_table_id |-> ii.indexed_table_id,
    has_is_local_index |-> TRUE,
    is_local_index |-> ii.is_local,
    has_is_unique_index |-> TRUE,
    is_unique_index |-> ii.is_unique ]

\* Mutant: the schema in the request keeps the tablet count it declared.
BuildRequestSchemaAsDeclared(name, tt, role, id, sch, n, ii) ==
  [ name |-> name,
    table_type |-> tt,
    has_creator_role_name |-> role # "",
    creator_role_name |-> role,
    has_table_id |-> id # EmptyId,
    table_id |-> id,
    schema |-> [ptr |-> sch.ptr, num_tablets |-> sch.num_tablets],
    num_tablets |-> n,
    has_index_info |-> ii.has_indexed_table_id,
    index_info |-> IF ii.has_indexed_table_id THEN ii ELSE [has_indexed_table_id |-> FALSE],
    has_indexed_table_id |-> ii.has_indexed_table_id,
    indexed_table_id |-> IF ii.has_indexed_table_id THEN ii.indexed_table_id ELSE "",
    has_is_local_index |-> ii.has_indexed_table_id,
    is_local_index |-> IF ii.has_indexed_table_id THEN ii.is_local ELSE FALSE,
    has_is_unique_index |-> ii.has_indexed_table_id,
    is_unique_index |-> IF ii.has_indexed_table_id THEN ii.is_unique ELSE FALSE ]

\* master::CreateTableRequestPB as Create() fills it in.
BuildRequest(name, tt, role, id, sch, n, ii) ==
  [ name |-> name,
    table_type |-> tt,
    has_creator_role_name |-> role # "",
    creator_role_name |-> role,
    has_table_id |-> id # EmptyId,
    table_id |-> id,
    schema |-> [ptr |-> sch.ptr, num_tablets |-> n],
    num_tablets |-> n,
    has_index_info |-> ii.has_indexed_table_id,
    index_info |-> IF ii.has_indexed_table_id THEN ii ELSE [has_indexed_table_id |-> FALSE],
    has_indexed_table_id |-> ii.has_indexed_table_id,
    indexed_table_id |-> IF ii.has_indexed_table_id THEN ii.indexed_table_id ELSE "",
    has_is_local_index |-> ii.has_indexed_table_id,
    is_local_index |-> IF ii.has_indexed_table_id THEN ii.is_local ELSE FALSE,
    has_is_unique_index |-> ii.has_indexed_table_id,
    is_unique_index |-> IF ii.has_indexed_table_id THEN ii.is_unique ELSE FALSE ]

NoRequest == [name |-> [ns |-> "", table |-> ""]]

\* CoarseMonoClock::Now() + (timeout_.Initialized() ? timeout_ : default).
ComputeDeadline(t) ==
  now + (IF t.initialized THEN t.ticks ELSE DefaultAdminOperationTimeout)

\* Mutant: AlreadyPresent is treated like any other failure.
CreateTableFailedOnAnyError(st) == st.code # "OK"

\* !s.ok() && !s.IsAlreadyPresent()
CreateTableFailed(st) == st.code # "OK" /\ st.code # "AlreadyPresent"

\* Mutant: the failure is wrapped in a status of another code.
PrependStatusRecoded(st, object_type, name) ==
  Status("RuntimeError", <<"Error creating", object_type, name, "on the master">> \o st.msg)

\* RETURN_NOT_OK_PREPEND: the same code, the message prefixed.
PrependStatus(st, object_type, name) ==
  Status(st.code, <<"Error creating", object_type, name, "on the master">> \o st.msg)

\* Mutant: the wait gets a deadline computed afresh.
WaitDeadlineFresh(d) == ComputeDeadline(timeout_)

\* The deadline handed to WaitForCreateTableToFinish.
WaitDeadline(d) == d

\* Mutant: AlreadyPresent is turned into success on return.
ReturnedStatusAbsorbing(st) == IF st.code = "AlreadyPresent" THEN StatusOK ELSE st

\* The status the last line of Create() returns.
ReturnedStatus(st) == st

\* Mutant: the record is written whatever s is.
LogsCreatedWhateverStatus(st, suppressed) == ~suppressed

\* Whether the "Created ..." record is written.
LogsCreated(st, suppressed) == st.code = "OK" /\ ~suppressed

\* ---------------------------------------------------------------- Init

NoRpc == [state |-> "none", req |-> NoRequest, deadline |-> -1,
          resp |-> [status |-> NoStatus, table_id |-> EmptyId]]

NoWaiter == [active |-> FALSE, table_id |-> EmptyId, deadline |-> -1]

\* What an observer records of one Create() call: the creator's fields when the
\* call started, what the call did (topology queries, creation requests sent,
\* waiter invocations, deadlines computed and passed on, "Created" records
\* written), the statuses its collaborators returned (s, w), whether the master
\* recorded a table for it, and whether it retries a call for the same name
\* that timed out after the master had recorded the table. It also holds the
\* status of the topology query, the suppression flag as read at the end of the
\* call, and the tablet count the previous call sent (0 if it sent none).
DefaultIndexInfo ==
  [has_indexed_table_id |-> FALSE, indexed_table_id |-> "", is_local |-> FALSE,
   is_unique |-> FALSE, use_mangled_column_name |-> FALSE]

NoCall ==
  [ n |-> 0, name |-> [ns |-> "user", table |-> ""], type |-> "YQL_TABLE_TYPE",
    schema |-> NullSchema, explicit |-> 0, declared |-> 0, wait |-> TRUE,
    timeout |-> NoTimeout, topo |-> 0, recommended |-> 0, sent |-> 0, waits |-> 0,
    deadlines |-> 0, t0 |-> -1, rpc_deadline |-> -1, wait_deadline |-> -1,
    s |-> NoStatus, w |-> NoStatus, logs |-> 0, req |-> NoRequest,
    committed |-> FALSE, retry |-> FALSE, topo_status |-> NoStatus,
    suppressed |-> FALSE, index_info |-> DefaultIndexInfo, prev_sent |-> 0 ]

Init ==
  /\ table_name_ = [ns |-> "user", table |-> ""]
  /\ table_type_ = "YQL_TABLE_TYPE"
  /\ creator_role_name_ = ""
  /\ table_id_ = EmptyId
  /\ num_tablets_ = 0
  /\ schema_ = NullSchema
  /\ index_info_ = DefaultIndexInfo
  /\ timeout_ = NoTimeout
  /\ wait_ = TRUE
  /\ pc = "idle"
  /\ req = NoRequest
  /\ deadline = -1
  /\ s = NoStatus
  /\ rpc = NoRpc
  /\ waiter = NoWaiter
  /\ catalog = <<>>
  /\ now = 0
  /\ result = NoStatus
  /\ call = NoCall
  /\ ncalls = 0
  /\ nsetters = 0

\* ------------------------------------------------------------- setters

\* A setter runs on the caller's thread, so never inside a Create() call.
CanSet == pc = "idle" /\ nsetters < MaxSetterCalls

runVars == <<pc, req, deadline, s, rpc, waiter, catalog, now, result, call, ncalls>>

\* The creator's fields as one value, so that a setter is a function on it.
Fields ==
  [ table_name_ |-> table_name_, table_type_ |-> table_type_,
    creator_role_name_ |-> creator_role_name_, table_id_ |-> table_id_,
    num_tablets_ |-> num_tablets_, schema_ |-> schema_, index_info_ |-> index_info_,
    timeout_ |-> timeout_, wait_ |-> wait_ ]

\* The creator's fields become f.
Assign(f) ==
  /\ table_name_' = f.table_name_
  /\ table_type_' = f.table_type_
  /\ creator_role_name_' = f.creator_role_name_
  /\ table_id_' = f.table_id_
  /\ num_tablets_' = f.num_tablets_
  /\ schema_' = f.schema_
  /\ index_info_' = f.index_info_
  /\ timeout_' = f.timeout_
  /\ wait_' = f.wait_

\* Values the caller passes to creator_role_name() and indexed_table_id().
RoleNames == {"admin"}

IndexedTableIds == {"base"}

\* What each setter does to the fields (lines 38-156).
Set_table_name(f, name) == [f EXCEPT !.table_name_ = name]

Set_table_type(f, t) == [f EXCEPT !.table_type_ = ClientToPBTableType(t)]

Set_creator_role_name(f, role) == [f EXCEPT !.creator_role_name_ = role]

Set_table_id(f, id) == [f EXCEPT !.table_id_ = id]

Set_num_tablets(f, count) == [f EXCEPT !.num_tablets_ = count]

Set_schema(f, sch) == [f EXCEPT !.schema_ = sch]

\* Mutant: the index description is replaced, not updated.
Set_indexed_table_id_Fresh(f, id) ==
  [f EXCEPT !.index_info_ = [DefaultIndexInfo EXCEPT !.has_indexed_table_id = TRUE,
                                                     !.indexed_table_id = id]]

Set_indexed_table_id(f, id) ==
  [f EXCEPT !.index_info_.has_indexed_table_id = TRUE,
            !.index_info_.indexed_table_id = id]

Set_is_local_index(f, b) == [f EXCEPT !.index_info_.is_local = b]

Set_is_unique_index(f, b) == [f EXCEPT !.index_info_.is_unique = b]

Set_use_mangled_column_name(f, b) ==
  [f EXCEPT !.index_info_.use_mangled_column_name = b]

Set_timeout(f, t) == [f EXCEPT !.timeout_ = t]

Set_wait(f, b) == [f EXCEPT !.wait_ = b]

table_name ==
  /\ CanSet
  /\ \E name \in TableNames : Assign(Set_table_name(Fields, name))
  /\ nsetters' = nsetters + 1
  /\ UNCHANGED runVars

table_type ==
  /\ CanSet
  /\ \E t \in YBTableTypes : Assign(Set_table_type(Fields, t))
  /\ nsetters' = nsetters + 1
  /\ UNCHANGED runVars

creator_role_name ==
  /\ CanSet
  /\ \E role \in RoleNames : Assign(Set_creator_role_name(Fields, role))
  /\ nsetters' = nsetters + 1
  /\ UNCHANGED runVars

table_id ==
  /\ CanSet
  /\ \E id \in {CallerId} : Assign(Set_table_id(Fields, id))
  /\ nsetters' = nsetters + 1
  /\ UNCHANGED runVars

num_tablets ==
  /\ CanSet
  /\ \E count \in ExplicitCounts : Assign(Set_num_tablets(Fields, count))
  /\ nsetters' = nsetters + 1
  /\ UNCHANGED runVars

schema ==
  /\ CanSet
  /\ \E sch \in ExtSchemas \cup {NullSchema} : Assign(Set_schema(Fields, sch))
  /\ nsetters' = nsetters + 1
  /\ UNCHANGED runVars

indexed_table_id ==
  /\ CanSet
  /\ \E id \in IndexedTableIds : Assign(Set_indexed_table_id(Fields, id))
  /\ nsetters' = nsetters + 1
  /\ UNCHANGED runVars

is_local_index ==
  /\ CanSet
  /\ \E b \in BOOLEAN : Assign(Set_is_local_index(Fields, b))
  /\ nsetters' = nsetters + 1
  /\ UNCHANGED runVars

is_unique_index ==
  /\ CanSet
  /\ \E b \in BOOLEAN : Assign(Set_is_unique_index(Fields, b))
  /\ nsetters' = nsetters + 1
  /\ UNCHANGED runVars

use_mangled_column_name ==
  /\ CanSet
  /\ \E b \in BOOLEAN : Assign(Set_use_mangled_column_name(Fields, b))
  /\ nsetters' = nsetters + 1
  /\ UNCHANGED runVars

timeout ==
  /\ CanSet
  /\ \E t \in CallerTimeouts : Assign(Set_timeout(Fields, t))
  /\ nsetters' = nsetters + 1
  /\ UNCHANGED runVars

wait ==
  /\ CanSet
  /\ \E b \in BOOLEAN : Assign(Set_wait(Fields, b))
  /\ nsetters' = nsetters + 1
  /\ UNCHANGED runVars

\* -------------------------------------------------------------- Create

CanCreate == pc = "idle" /\ ncalls < MaxCreateCalls

\* The observer's record of a call that starts now.
StartCall ==
  [ NoCall EXCEPT !.n = ncalls + 1, !.name = table_name_, !.type = table_type_,
                  !.schema = schema_, !.explicit = num_tablets_, !.wait = wait_,
                  !.timeout = timeout_, !.index_info = index_info_,
                  !.prev_sent = IF call.sent = 1 THEN call.req.num_tablets ELSE 0,
                  !.retry = /\ call.n > 0
                            /\ call.name = table_name_
                            /\ call.committed
                            /\ result.code = "TimedOut" ]

\* Create() returns status st to its caller; sch is schema_ as the call used it.
Return(st, sch, c) ==
  /\ pc' = "idle"
  /\ result' = st
  /\ schema_' = SchemaOnReturn(sch)
  /\ call' = c
  /\ rpc' = NoRpc
  /\ waiter' = NoWaiter

\* Lines 160-162: an empty table name.
CreateMissingName ==
  /\ CanCreate
  /\ table_name_.table = ""
  /\ ncalls' = ncalls + 1
  /\ Return(Status("InvalidArgument", <<"Missing", ObjectType(index_info_), "name">>),
            schema_, StartCall)
  /\ UNCHANGED <<table_name_, table_type_, creator_role_name_, table_id_, num_tablets_,
                 index_info_, timeout_, wait_, req, deadline, s, catalog, now, nsetters>>

\* Mutant: the schema that should not be set is reported as an error.
CreateCheckReturnsError ==
  /\ CanCreate
  /\ table_name_.table # ""
  /\ SynthesizesSchema(table_type_)
  /\ schema_.ptr # "null"
  /\ ncalls' = ncalls + 1
  /\ Return(Status("InvalidArgument", <<"Schema should not be set">>), schema_, StartCall)
  /\ UNCHANGED <<table_name_, table_type_, creator_role_name_, table_id_, num_tablets_,
                 index_info_, timeout_, wait_, req, deadline, s, catalog, now, nsetters>>

\* Mutant: the CHECK runs before the name is tested.
CreateCheckBeforeName ==
  /\ CanCreate
  /\ SynthesizesSchema(table_type_)
  /\ schema_.ptr # "null"
  /\ ncalls' = ncalls + 1
  /\ pc' = "aborted"
  /\ result' = NoStatus
  /\ call' = StartCall
  /\ UNCHANGED <<specVars, req, deadline, s, rpc, waiter, catalog, now, nsetters>>

\* Line 170: CHECK(!schema_) fails and the process is aborted.
CreateCheckFailed ==
  /\ CanCreate
  /\ table_name_.table # ""
  /\ SynthesizesSchema(table_type_)
  /\ schema_.ptr # "null"
  /\ ncalls' = ncalls + 1
  /\ pc' = "aborted"
  /\ result' = NoStatus
  /\ call' = StartCall
  /\ UNCHANGED <<specVars, req, deadline, s, rpc, waiter, catalog, now, nsetters>>

\* Lines 177-179: no schema was set and none is synthesized.
CreateMissingSchema ==
  /\ CanCreate
  /\ table_name_.table # ""
  /\ SchemaInCreate(table_type_, schema_).ptr = "null"
  /\ ncalls' = ncalls + 1
  /\ Return(Status("InvalidArgument", <<"Missing schema">>), schema_, StartCall)
  /\ UNCHANGED <<table_name_, table_type_, creator_role_name_, table_id_, num_tablets_,
                 index_info_, timeout_, wait_, req, deadline, s, catalog, now, nsetters>>

\* Mutant: the test for a missing schema is left out.
ValidatedNoSchemaCheck ==
  /\ table_name_.table # ""
  /\ SynthesizesSchema(table_type_) => schema_.ptr = "null"

\* The name and the schema pass lines 160-179.
Validated ==
  /\ table_name_.table # ""
  /\ SynthesizesSchema(table_type_) => schema_.ptr = "null"
  /\ SchemaInCreate(table_type_, schema_).ptr # "null"

\* The tablet counts schema_->table_properties().num_tablets() may yield: a
\* schema that was destroyed is read as whatever is in its memory.
DeclaredNumTablets(sch) ==
  IF sch.ptr = "dangling" THEN GarbageNumTablets ELSE {sch.num_tablets}

\* Line 209 on a destroyed schema: the read may also end the process.
CreateUseAfterFree ==
  /\ CanCreate
  /\ Validated
  /\ schema_.ptr = "dangling"
  /\ ncalls' = ncalls + 1
  /\ pc' = "aborted"
  /\ result' = NoStatus
  /\ call' = StartCall
  /\ UNCHANGED <<specVars, req, deadline, s, rpc, waiter, catalog, now, nsetters>>

\* Mutant: the failure of NumTabletsForUserTable is ignored and the request
\* goes out without a tablet count.
CreateTopologyFailedIgnored ==
  /\ CanCreate
  /\ Validated
  /\ \E declared \in DeclaredNumTablets(SchemaInCreate(table_type_, schema_)) :
     \E r \in TopologyResults :
       LET sch == SchemaInCreate(table_type_, schema_)
           rq == BuildRequest(table_name_, table_type_, creator_role_name_, table_id_,
                              sch, 0, index_info_)
           d == ComputeDeadline(timeout_)
       IN /\ NeedsTopologyQuery(num_tablets_, declared, table_name_)
          /\ ~r.ok
          /\ schema_' = sch
          /\ req' = rq
          /\ deadline' = d
          /\ rpc' = [state |-> "sent", req |-> rq, deadline |-> d,
                     resp |-> [status |-> NoStatus, table_id |-> EmptyId]]
          /\ call' = [StartCall EXCEPT !.declared = declared, !.topo = 1,
                                       !.topo_status = r.status, !.sent = 1,
                                       !.deadlines = 1, !.t0 = now,
                                       !.rpc_deadline = d, !.req = rq]
  /\ ncalls' = ncalls + 1
  /\ pc' = "CreateTable"
  /\ s' = NoStatus
  /\ UNCHANGED <<table_name_, table_type_, creator_role_name_, table_id_, num_tablets_,
                 index_info_, timeout_, wait_, waiter, catalog, now, result, nsetters>>

\* Line 221: NumTabletsForUserTable fails and VERIFY_RESULT returns its status.
CreateTopologyFailed ==
  /\ CanCreate
  /\ Validated
  /\ \E declared \in DeclaredNumTablets(SchemaInCreate(table_type_, schema_)) :
     \E r \in TopologyResults :
       /\ NeedsTopologyQuery(num_tablets_, declared, table_name_)
       /\ ~r.ok
       /\ Return(r.status, SchemaInCreate(table_type_, schema_),
                 [StartCall EXCEPT !.declared = declared, !.topo = 1,
                                   !.topo_status = r.status])
  /\ ncalls' = ncalls + 1
  /\ UNCHANGED <<table_name_, table_type_, creator_role_name_, table_id_, num_tablets_,
                 index_info_, timeout_, wait_, req, deadline, s, catalog, now, nsetters>>

\* Mutant: the resolved tablet count is kept in a local, not in num_tablets_.
CreateSendRequestNoWriteBack ==
  /\ CanCreate
  /\ Validated
  /\ \E declared \in DeclaredNumTablets(SchemaInCreate(table_type_, schema_)) :
     \E r \in TopologyResults :
       LET asked == NeedsTopologyQuery(num_tablets_, declared, table_name_)
           n == ResolveNumTablets(num_tablets_, declared, table_name_, r.value)
           sch == SchemaInCreate(table_type_, schema_)
           rq == BuildRequest(table_name_, table_type_, creator_role_name_, table_id_,
                              sch, n, index_info_)
           d == ComputeDeadline(timeout_)
       IN /\ IF asked THEN r.ok ELSE r.value = 0
          /\ schema_' = sch
          /\ req' = rq
          /\ deadline' = d
          /\ rpc' = [state |-> "sent", req |-> rq, deadline |-> d,
                     resp |-> [status |-> NoStatus, table_id |-> EmptyId]]
          /\ call' = [StartCall EXCEPT !.declared = declared,
                                       !.topo = IF asked THEN 1 ELSE 0,
                                       !.topo_status = IF asked THEN r.status ELSE NoStatus,
                                       !.recommended = IF asked THEN r.value ELSE 0,
                                       !.sent = 1, !.deadlines = 1, !.t0 = now,
                                       !.rpc_deadline = d, !.req = rq]
  /\ ncalls' = ncalls + 1
  /\ pc' = "CreateTable"
  /\ s' = NoStatus
  /\ UNCHANGED <<table_name_, table_type_, creator_role_name_, table_id_, num_tablets_,
                 index_info_, timeout_, wait_, waiter, catalog, now, result, nsetters>>

\* Lines 181-244: the request is built, the tablet count resolved, the deadline
\* computed and CreateTable called; Create() now blocks in it.
CreateSendRequest ==
  /\ CanCreate
  /\ Validated
  /\ \E declared \in DeclaredNumTablets(SchemaInCreate(table_type_, schema_)) :
     \E r \in TopologyResults :
       LET asked == NeedsTopologyQuery(num_tablets_, declared, table_name_)
           n == ResolveNumTablets(num_tablets_, declared, table_name_, r.value)
           sch == SchemaInCreate(table_type_, schema_)
           rq == BuildRequest(table_name_, table_type_, creator_role_name_, table_id_,
                              sch, n, index_info_)
           d == ComputeDeadline(timeout_)
       IN /\ IF asked THEN r.ok ELSE r.value = 0
          /\ num_tablets_' = n
          /\ schema_' = sch
          /\ req' = rq
          /\ deadline' = d
          /\ rpc' = [state |-> "sent", req |-> rq, deadline |-> d,
                     resp |-> [status |-> NoStatus, table_id |-> EmptyId]]
          /\ call' = [StartCall EXCEPT !.declared = declared,
                                       !.topo = IF asked THEN 1 ELSE 0,
                                       !.topo_status = IF asked THEN r.status ELSE NoStatus,
                                       !.recommended = IF asked THEN r.value ELSE 0,
                                       !.sent = 1, !.deadlines = 1, !.t0 = now,
                                       !.rpc_deadline = d, !.req = rq]
  /\ ncalls' = ncalls + 1
  /\ pc' = "CreateTable"
  /\ s' = NoStatus
  /\ UNCHANGED <<table_name_, table_type_, creator_role_name_, table_id_, index_info_,
                 timeout_, wait_, waiter, catalog, now, result, nsetters>>

\* Lines 263-268: the informational record and the return of s.
Finish(st, c) ==
  \E suppressed \in BOOLEAN :
    Return(ReturnedStatus(st), schema_,
           [c EXCEPT !.logs = IF LogsCreated(st, suppressed) THEN 1 ELSE 0,
                     !.suppressed = suppressed])

\* Mutant: the wait flag is not consulted.
AfterCreateTableAlwaysWaits(st, tid) ==
  /\ s' = st
  /\ table_id_' = tid
  /\ IF CreateTableFailed(st)
       THEN Return(PrependStatus(st, ObjectType(index_info_), table_name_), schema_,
                   [call EXCEPT !.s = st])
       ELSE /\ pc' = "WaitForCreateTableToFinish"
            /\ waiter' = [active |-> TRUE, table_id |-> tid,
                          deadline |-> WaitDeadline(deadline)]
            /\ call' = [call EXCEPT !.s = st, !.waits = @ + 1,
                                    !.wait_deadline = WaitDeadline(deadline)]
            /\ rpc' = NoRpc
            /\ UNCHANGED <<result, schema_>>
  /\ UNCHANGED <<table_name_, table_type_, creator_role_name_, num_tablets_,
                 index_info_, timeout_, wait_, req, deadline, catalog, now, ncalls,
                 nsetters>>

\* Lines 246-268, entered when CreateTable has returned st (and stored tid in
\* table_id_): the classification of st, then the wait or the return.
AfterCreateTable(st, tid) ==
  /\ s' = st
  /\ table_id_' = tid
  /\ IF CreateTableFailed(st)
       THEN Return(PrependStatus(st, ObjectType(index_info_), table_name_), schema_,
                   [call EXCEPT !.s = st])
     ELSE IF wait_
       THEN /\ pc' = "WaitForCreateTableToFinish"
            /\ waiter' = [active |-> TRUE, table_id |-> tid,
                          deadline |-> WaitDeadline(deadline)]
            /\ call' = [call EXCEPT !.s = st, !.waits = @ + 1,
                                    !.wait_deadline = WaitDeadline(deadline)]
            /\ rpc' = NoRpc
            /\ UNCHANGED <<result, schema_>>
     ELSE Finish(st, [call EXCEPT !.s = st])
  /\ UNCHANGED <<table_name_, table_type_, creator_role_name_, num_tablets_,
                 index_info_, timeout_, wait_, req, deadline, catalog, now, ncalls,
                 nsetters>>

\* Mutant: a rejected creation request is sent again.
CreateTableReturnRetrying ==
  /\ pc = "CreateTable"
  /\ rpc.state = "answered"
  /\ now <= rpc.deadline
  /\ IF CreateTableFailed(rpc.resp.status)
       THEN /\ rpc' = [rpc EXCEPT !.state = "sent"]
            /\ call' = [call EXCEPT !.sent = @ + 1]
            /\ UNCHANGED <<specVars, pc, localVars, waiter, catalog, now, result,
                           ncalls, nsetters>>
       ELSE AfterCreateTable(rpc.resp.status, rpc.resp.table_id)

\* CreateTable returns the master's answer before the deadline.
CreateTableReturn ==
  /\ pc = "CreateTable"
  /\ rpc.state = "answered"
  /\ now <= rpc.deadline
  /\ AfterCreateTable(rpc.resp.status,
                      IF CreateTableFailed(rpc.resp.status) THEN table_id_
                      ELSE rpc.resp.table_id)

\* CreateTable gives up at the deadline, whatever the master did meanwhile.
CreateTableTimedOut ==
  /\ pc = "CreateTable"
  /\ now > rpc.deadline
  /\ AfterCreateTable(Status("TimedOut", <<"CreateTable timed out">>), table_id_)

\* WaitForCreateTableToFinish sees the table ready before its deadline
\* (lines 258-268).
WaitReturnsReady ==
  /\ pc = "WaitForCreateTableToFinish"
  /\ now <= waiter.deadline
  /\ \E i \in 1..Len(catalog) : catalog[i].id = waiter.table_id /\ catalog[i].ready
  /\ Finish(s, [call EXCEPT !.w = StatusOK])
  /\ UNCHANGED <<table_name_, table_type_, creator_role_name_, table_id_, num_tablets_,
                 index_info_, timeout_, wait_, req, deadline, s, catalog, now, ncalls,
                 nsetters>>

\* Mutant: the waiter's failure is dropped and s is returned.
WaitTimedOutSwallowed ==
  /\ pc = "WaitForCreateTableToFinish"
  /\ now > waiter.deadline
  /\ Finish(s, [call EXCEPT !.w = Status("TimedOut", <<"Timed out waiting for table creation">>)])
  /\ UNCHANGED <<table_name_, table_type_, creator_role_name_, table_id_, num_tablets_,
                 index_info_, timeout_, wait_, req, deadline, s, catalog, now, ncalls,
                 nsetters>>

\* Mutant: a wait that ran out of time is started over.
WaitTimedOutPollsOn ==
  /\ pc = "WaitForCreateTableToFinish"
  /\ now > waiter.deadline
  /\ UNCHANGED vars

\* WaitForCreateTableToFinish gives up at its deadline and RETURN_NOT_OK
\* returns its status (lines 258-261).
WaitTimedOut ==
  /\ pc = "WaitForCreateTableToFinish"
  /\ now > waiter.deadline
  /\ LET w == Status("TimedOut", <<"Timed out waiting for table creation">>)
     IN Return(w, schema_, [call EXCEPT !.w = w])
  /\ UNCHANGED <<table_name_, table_type_, creator_role_name_, table_id_, num_tablets_,
                 index_info_, timeout_, wait_, req, deadline, s, catalog, now, ncalls,
                 nsetters>>

\* ------------------------------------------------------- collaborators

\* The master handles the creation request: a table of that name (or with the
\* requested id) makes it AlreadyPresent, otherwise the table is recorded, not
\* yet ready, under the requested id or a fresh one.
MasterCreateTable ==
  /\ rpc.state = "sent"
  /\ LET same == { i \in 1..Len(catalog) :
                     \/ catalog[i].name = rpc.req.name
                     \/ (rpc.req.has_table_id /\ catalog[i].id = rpc.req.table_id) }
         id == IF rpc.req.has_table_id THEN rpc.req.table_id
               ELSE GenId(Len(catalog) + 1)
     IN IF same # {}
          THEN /\ rpc' = [rpc EXCEPT !.state = "answered",
                            !.resp = [status |-> Status("AlreadyPresent", <<"Already present">>),
                                      table_id |-> catalog[CHOOSE i \in same : TRUE].id]]
               /\ UNCHANGED <<catalog, call>>
          ELSE /\ rpc' = [rpc EXCEPT !.state = "answered",
                            !.resp = [status |-> StatusOK, table_id |-> id]]
               /\ catalog' = Append(catalog, [name |-> rpc.req.name, id |-> id,
                                              ready |-> FALSE])
               /\ call' = [call EXCEPT !.committed = TRUE]
  /\ UNCHANGED <<specVars, pc, localVars, waiter, now, result, ncalls, nsetters>>

\* The master rejects the creation request.
MasterRejectCreateTable ==
  /\ rpc.state = "sent"
  /\ \E st \in MasterRejections :
       rpc' = [rpc EXCEPT !.state = "answered",
                          !.resp = [status |-> st, table_id |-> EmptyId]]
  /\ UNCHANGED <<specVars, pc, localVars, waiter, catalog, now, result, call, ncalls,
                 nsetters>>

\* A recorded table's tablets come up: it is ready for client operations.
TableBecomesReady ==
  /\ \E i \in 1..Len(catalog) :
       /\ ~catalog[i].ready
       /\ catalog' = [catalog EXCEPT ![i].ready = TRUE]
  /\ UNCHANGED <<specVars, pc, localVars, rpc, waiter, now, result, call, ncalls,
                 nsetters>>

\* The monotonic clock advances while Create() is blocked in a collaborator,
\* up to the first instant past that call's deadline.
Tick ==
  /\ \/ pc = "CreateTable" /\ now <= rpc.deadline
     \/ pc = "WaitForCreateTableToFinish" /\ now <= waiter.deadline
  /\ now' = now + 1
  /\ UNCHANGED <<specVars, pc, localVars, rpc, waiter, catalog, result, call, ncalls,
                 nsetters>>

\* --------------------------------------------------------------- Spec

Next ==
  \/ table_name \/ table_type \/ creator_role_name \/ table_id \/ num_tablets
  \/ schema \/ indexed_table_id \/ is_local_index \/ is_unique_index
  \/ use_mangled_column_name \/ timeout \/ wait
  \/ CreateMissingName \/ CreateCheckFailed \/ CreateMissingSchema
  \/ CreateUseAfterFree \/ CreateTopologyFailed \/ CreateSendRequest
  \/ CreateTableReturn \/ CreateTableTimedOut \/ WaitReturnsReady \/ WaitTimedOut
  \/ MasterCreateTable \/ MasterRejectCreateTable \/ TableBecomesReady \/ Tick

Spec == Init /\ [][Next]_vars

\* ------------------------------------------------------------- claims

\* The last Create() call has returned to its caller.
Returned == pc = "idle" /\ call.n > 0

\* The kinds for which no caller schema is needed, by their wire names.
SynthKind(tt) == tt \in {"REDIS_TABLE_TYPE", "TRANSACTION_STATUS_TABLE_TYPE"}

MissingSchemaStatus == Status("InvalidArgument", <<"Missing schema">>)

\* The tables the catalog holds under a name.
TablesNamed(name) == { i \in 1..Len(catalog) : catalog[i].name = name }

\* C1 as the specification states it: when the master answers AlreadyPresent,
\* Create() goes on to the readiness wait (if asked to wait) and, once the
\* table is seen ready, returns success; AlreadyPresent is never returned.
C1_AlreadyExistsReturnsSuccess ==
  (Returned /\ call.s.code = "AlreadyPresent") =>
    /\ call.wait => call.waits = 1
    /\ (call.wait /\ call.w.code = "OK") => result.code = "OK"
    /\ result.code # "AlreadyPresent"

\* C1 amended: when the master answers AlreadyPresent, Create() goes on to the
\* readiness wait (if asked to wait); once the table is seen ready (or at once
\* when not waiting) it returns that AlreadyPresent status unchanged and writes
\* no "Created" record; only a failed wait replaces it.
C1_AlreadyPresentWaitsAndIsReturned ==
  /\ (pc = "WaitForCreateTableToFinish" /\ call.s.code = "AlreadyPresent") => call.wait
  /\ (Returned /\ call.s.code = "AlreadyPresent") =>
       /\ call.wait => (call.waits = 1 /\ call.w.code # "none")
       /\ ~call.wait => (call.waits = 0 /\ result = call.s)
       /\ (call.wait /\ call.w.code = "OK") => (result = call.s /\ call.logs = 0)
       /\ (call.wait /\ call.w.code # "OK") => result = call.w

C1_Witness ==
  /\ Returned
  /\ call.s.code = "AlreadyPresent"
  /\ call.wait
  /\ call.waits = 1
  /\ call.w.code = "OK"
  /\ result.code = "AlreadyPresent"

\* C2 as the specification states it: a Create() that retries a call for the
\* same name, which timed out after the master had recorded the table, leaves
\* exactly one table of that name and (answered by the master, the table seen
\* ready when waiting) returns success.
C2_RetryReturnsSuccess ==
  call.retry =>
    /\ Cardinality(TablesNamed(call.name)) = 1
    /\ (Returned /\ call.s.code \in {"OK", "AlreadyPresent"}
          /\ (call.wait => call.w.code = "OK")) => result.code = "OK"

\* C2 amended: such a retry leaves exactly one table of that name, and
\* (answered by the master, the table seen ready when waiting) it returns the
\* master's AlreadyPresent status, not success.
C2_RetryLeavesOneTable ==
  call.retry =>
    /\ Cardinality(TablesNamed(call.name)) = 1
    /\ call.s.code # "OK"
    /\ (Returned /\ call.s.code = "AlreadyPresent"
          /\ (call.wait => call.w.code = "OK")) => result.code = "AlreadyPresent"

C2_Witness ==
  /\ Returned
  /\ call.retry
  /\ call.n = 2
  /\ call.s.code = "AlreadyPresent"
  /\ call.wait
  /\ call.w.code = "OK"
  /\ result.code = "AlreadyPresent"
  /\ Cardinality(TablesNamed(call.name)) = 1

\* C3: a Create() with an empty local table name returns InvalidArgument
\* ("Missing <object> name") whatever the other fields are, and has made no
\* topology query, sent no creation request and invoked no readiness wait.
C3_EmptyNameIsInvalidArgument ==
  (call.n > 0 /\ call.name.table = "") =>
    /\ pc = "idle"
    /\ result.code = "InvalidArgument"
    /\ result.msg \in {<<"Missing", "table", "name">>, <<"Missing", "index", "name">>}
    /\ call.topo = 0
    /\ call.sent = 0
    /\ call.waits = 0
    /\ call.deadlines = 0

C3_Witness ==
  /\ Returned
  /\ call.name.table = ""
  /\ call.type = "REDIS_TABLE_TYPE"
  /\ call.schema.ptr = "ext"
  /\ result.code = "InvalidArgument"

\* C4: a Create() with a non-empty name, a kind that is neither Redis nor
\* transaction-status, and no schema returns InvalidArgument "Missing schema"
\* without a topology query or a creation request; with a schema set it never
\* returns that status.
C4_MissingSchemaIsInvalidArgument ==
  (call.n > 0 /\ call.name.table # "" /\ ~SynthKind(call.type)) =>
    /\ call.schema.ptr = "null" =>
         /\ pc = "idle"
         /\ result = MissingSchemaStatus
         /\ call.topo = 0
         /\ call.sent = 0
         /\ call.waits = 0
    /\ (call.schema.ptr # "null" /\ pc = "idle") => result # MissingSchemaStatus

C4_Witness ==
  /\ Returned
  /\ call.name.table # ""
  /\ call.type = "YQL_TABLE_TYPE"
  /\ call.schema.ptr = "null"
  /\ call.explicit = 5
  /\ result = MissingSchemaStatus

\* The tablet count the schema of the call declares: that of the caller's
\* schema, none for a synthesized schema, whatever was read for a destroyed one.
C5_Declared ==
  IF call.schema.ptr = "ext" THEN call.schema.num_tablets
  ELSE IF call.schema.ptr = "null" THEN 0
  ELSE call.declared

\* C5: the tablet count in the creation request is the explicit count if > 0,
\* else the schema-declared count if > 0, else 1 for a system table, else the
\* topology service's recommendation; the topology service is queried in the
\* last case only.
C5_TabletCountPrecedence ==
  /\ call.sent = 1 =>
       call.req.num_tablets =
         IF call.explicit > 0 THEN call.explicit
         ELSE IF C5_Declared > 0 THEN C5_Declared
         ELSE IF call.name.ns = "system" THEN 1
         ELSE call.recommended
  /\ call.n > 0 =>
       /\ call.topo \in {0, 1}
       /\ call.topo = 1 =>
            (call.explicit <= 0 /\ C5_Declared <= 0 /\ call.name.ns # "system")
       /\ (call.sent = 1 /\ call.topo = 0) =>
            (call.explicit > 0 \/ C5_Declared > 0 \/ call.name.ns = "system")

C5_Witness ==
  /\ call.sent = 1
  /\ call.explicit = 5
  /\ call.schema = [ptr |-> "ext", num_tablets |-> 3]
  /\ call.name.ns = "user"
  /\ call.req.num_tablets = 5
  /\ call.topo = 0

\* C6: when the readiness wait ends by its deadline elapsing, after the master
\* accepted the table or already held it, Create() returns TimedOut, never a
\* success or the status of the creation request.
C6_WaitTimeoutIsReturned ==
  (Returned /\ call.waits = 1 /\ call.w.code = "TimedOut") =>
    /\ result.code = "TimedOut"
    /\ result = call.w
    /\ call.logs = 0

C6_Witness ==
  /\ Returned
  /\ call.wait
  /\ call.waits = 1
  /\ call.s.code = "OK"
  /\ call.w.code = "TimedOut"
  /\ result.code = "TimedOut"
  /\ \E i \in 1..Len(catalog) : catalog[i].id = table_id_ /\ catalog[i].name = call.name

\* C7: a Create() with a non-empty name, a Redis or transaction-status kind
\* and no schema never returns "Missing schema" and does not abort: it goes on
\* to tablet-count resolution, and unless that fails it sends the creation
\* request with the synthesized schema.
C7_SchemaIsSynthesized ==
  (call.n > 0 /\ call.name.table # "" /\ SynthKind(call.type)
     /\ call.schema.ptr = "null") =>
    /\ pc # "aborted"
    /\ pc = "idle" => result # MissingSchemaStatus
    /\ \/ call.sent = 1 /\ call.req.schema.ptr = "redis"
       \/ /\ call.sent = 0
          /\ call.topo = 1
          /\ pc = "idle"
          /\ result.code = "IllegalState"

C7_Witness ==
  /\ call.n > 0
  /\ call.name.table # ""
  /\ call.type = "TRANSACTION_STATUS_TABLE_TYPE"
  /\ call.schema.ptr = "null"
  /\ call.sent = 1
  /\ call.req.schema.ptr = "redis"

\* C8: when CreateTable fails with anything but AlreadyPresent, Create()
\* returns a status of the same code whose message is that failure's message
\* behind the object kind and the table name, and the readiness wait is not
\* invoked.
C8_CreateFailureIsReturned ==
  /\ pc # "idle" => call.s.code \in {"none", "OK", "AlreadyPresent"}
  /\ (Returned /\ call.s.code \notin {"none", "OK", "AlreadyPresent"}) =>
       /\ call.sent = 1
       /\ result.code = call.s.code
       /\ result.msg =
            <<"Error creating", IF call.req.has_index_info THEN "index" ELSE "table",
              call.name, "on the master">> \o call.s.msg
       /\ call.waits = 0
       /\ call.logs = 0

C8_Witness ==
  /\ Returned
  /\ call.wait
  /\ call.s.code = "ServiceUnavailable"
  /\ result.code = "ServiceUnavailable"
  /\ call.waits = 0

\* C9: a Create() call sends the creation request at most once, and not at all
\* when the name or schema validation or the tablet-count resolution fails.
C9_NoInternalRetry ==
  /\ call.sent \in {0, 1}
  /\ (call.n > 0 /\ call.name.table = "") => call.sent = 0
  /\ (call.n > 0 /\ ~SynthKind(call.type) /\ call.schema.ptr = "null") => call.sent = 0
  /\ (Returned /\ call.topo = 1 /\ result.code = "IllegalState") => call.sent = 0
  /\ (pc = "CreateTable") => (call.sent = 1 /\ rpc.state # "none")
  /\ (pc # "CreateTable") => rpc.state = "none"

C9_Witness ==
  /\ Returned
  /\ call.sent = 1
  /\ call.s.code = "ServiceUnavailable"
  /\ now < call.rpc_deadline

\* C10: the deadline is computed once per call, as the time of computation plus
\* the caller's timeout if set and the default admin-operation timeout
\* otherwise, and the readiness wait is given that very deadline.
C10_OneDeadline ==
  /\ call.deadlines \in {0, 1}
  /\ call.sent = 1 =>
       /\ call.deadlines = 1
       /\ call.rpc_deadline =
            call.t0 + (IF call.timeout.initialized THEN call.timeout.ticks
                       ELSE DefaultAdminOperationTimeout)
  /\ call.waits = 1 => (call.sent = 1 /\ call.wait_deadline = call.rpc_deadline)
  /\ pc = "WaitForCreateTableToFinish" => waiter.deadline = call.rpc_deadline

C10_Witness ==
  /\ pc = "WaitForCreateTableToFinish"
  /\ now > call.t0
  /\ call.timeout.initialized
  /\ waiter.deadline = call.rpc_deadline
  /\ waiter.deadline = call.t0 + 1

\* C11: the readiness wait is invoked in a call exactly when the wait flag is
\* true and CreateTable ended in success or AlreadyPresent; with the flag false
\* the call never waits and returns the status of CreateTable in the step that
\* classifies it.
C11_WaitIffRequestedAndCreated ==
  /\ call.waits \in {0, 1}
  /\ pc = "WaitForCreateTableToFinish" =>
       (call.waits = 1 /\ call.wait /\ call.s.code \in {"OK", "AlreadyPresent"})
  /\ Returned =>
       (call.waits = 1 <=> (call.wait /\ call.s.code \in {"OK", "AlreadyPresent"}))
  /\ (call.n > 0 /\ ~call.wait) =>
       /\ call.waits = 0
       /\ pc # "WaitForCreateTableToFinish"
       /\ call.w.code = "none"
       /\ (Returned /\ call.s.code \in {"OK", "AlreadyPresent"}) => result = call.s

C11_Witness ==
  /\ Returned
  /\ ~call.wait
  /\ call.s.code = "OK"
  /\ call.waits = 0
  /\ result.code = "OK"
  /\ \E i \in 1..Len(catalog) : catalog[i].id = table_id_ /\ ~catalog[i].ready

\* Create() is blocked in one of its two collaborator calls.
Blocked == pc \in {"CreateTable", "WaitForCreateTableToFinish"}

\* The clock advances while Create() is blocked, and each blocking call
\* returns once its deadline has passed.
LiveSpec ==
  /\ Init
  /\ [][Next]_vars
  /\ WF_vars(Tick)
  /\ WF_vars(CreateTableTimedOut)
  /\ WF_vars(WaitTimedOut)

\* C12: a Create() call that is blocked in the creation request or in the
\* readiness wait eventually returns to its caller, with success or a failure.
C12_CreateReturns == Blocked ~> (pc = "idle" /\ result.code # "none")

\* A call has been through both blocking phases and has returned TimedOut
\* from the second.
C12_Witness ==
  /\ Returned
  /\ call.sent = 1
  /\ call.waits = 1
  /\ call.w.code = "TimedOut"
  /\ result.code = "TimedOut"
  /\ now = call.rpc_deadline + 1

\* The setters, by name, and the arguments each is called with.
SetterOps ==
  {"table_name", "table_type", "creator_role_name", "table_id", "num_tablets",
   "schema", "indexed_table_id", "is_local_index", "is_unique_index",
   "use_mangled_column_name", "timeout", "wait"}

SetterArgs(op) ==
  CASE op = "table_name" -> TableNames
    [] op = "table_type" -> YBTableTypes
    [] op = "creator_role_name" -> RoleNames
    [] op = "table_id" -> {CallerId}
    [] op = "num_tablets" -> ExplicitCounts
    [] op = "schema" -> ExtSchemas \cup {NullSchema}
    [] op = "indexed_table_id" -> IndexedTableIds
    [] op = "timeout" -> CallerTimeouts
    [] OTHER -> BOOLEAN

ApplySetter(f, op, arg) ==
  CASE op = "table_name" -> Set_table_name(f, arg)
    [] op = "table_type" -> Set_table_type(f, arg)
    [] op = "creator_role_name" -> Set_creator_role_name(f, arg)
    [] op = "table_id" -> Set_table_id(f, arg)
    [] op = "num_tablets" -> Set_num_tablets(f, arg)
    [] op = "schema" -> Set_schema(f, arg)
    [] op = "indexed_table_id" -> Set_indexed_table_id(f, arg)
    [] op = "is_local_index" -> Set_is_local_index(f, arg)
    [] op = "is_unique_index" -> Set_is_unique_index(f, arg)
    [] op = "use_mangled_column_name" -> Set_use_mangled_column_name(f, arg)
    [] op = "timeout" -> Set_timeout(f, arg)
    [] op = "wait" -> Set_wait(f, arg)

\* The part of the fields each setter is meant to write, under its name.
FieldOf(f, op) ==
  CASE op = "table_name" -> f.table_name_
    [] op = "table_type" -> f.table_type_
    [] op = "creator_role_name" -> f.creator_role_name_
    [] op = "table_id" -> f.table_id_
    [] op = "num_tablets" -> f.num_tablets_
    [] op = "schema" -> f.schema_
    [] op = "indexed_table_id" ->
         <<f.index_info_.has_indexed_table_id, f.index_info_.indexed_table_id>>
    [] op = "is_local_index" -> f.index_info_.is_local
    [] op = "is_unique_index" -> f.index_info_.is_unique
    [] op = "use_mangled_column_name" -> f.index_info_.use_mangled_column_name
    [] op = "timeout" -> f.timeout_
    [] op = "wait" -> f.wait_

\* The builder on its own: the setter calls a caller makes before Create().
BuilderNext ==
  \/ table_name \/ table_type \/ creator_role_name \/ table_id \/ num_tablets
  \/ schema \/ indexed_table_id \/ is_local_index \/ is_unique_index
  \/ use_mangled_column_name \/ timeout \/ wait

BuilderSpec == Init /\ [][BuilderNext]_vars

\* C13: from any state in which the caller may use the builder, two setters
\* for different fields give the same fields in either order, and a setter
\* leaves every field but its own as it was.
C13_SettersCommute ==
  pc = "idle" =>
    \A a \in SetterOps : \A x \in SetterArgs(a) :
      /\ \A k \in SetterOps \ {a} :
           FieldOf(ApplySetter(Fields, a, x), k) = FieldOf(Fields, k)
      /\ \A b \in SetterOps \ {a} : \A y \in SetterArgs(b) :
           ApplySetter(ApplySetter(Fields, a, x), b, y) =
             ApplySetter(ApplySetter(Fields, b, y), a, x)

\* Two setters for different parts of the index description have both run.
C13_Witness ==
  /\ ncalls = 0
  /\ nsetters = 2
  /\ index_info_.has_indexed_table_id
  /\ index_info_.is_local
  /\ ~index_info_.is_unique

\* C14 as the specification states it: a call that ends well (the creation
\* accepted or AlreadyPresent, and the table seen ready when waiting) writes
\* exactly one "Created" record unless the suppression flag is on, and a call
\* that fails writes none.
C14_OneRecordOnSuccessOrAlreadyPresent ==
  Returned =>
    call.logs =
      IF /\ call.s.code \in {"OK", "AlreadyPresent"}
         /\ call.wait => call.w.code = "OK"
         /\ ~call.suppressed
      THEN 1 ELSE 0

\* C14 amended: exactly one "Created" record is written, unless the
\* suppression flag is on, when Create() returns OK (the creation accepted and
\* the table seen ready when waiting); none is written on any path where
\* Create() returns another status, the AlreadyPresent path included.
C14_OneRecordWhenCreated ==
  /\ call.logs \in {0, 1}
  /\ pc # "idle" => call.logs = 0
  /\ Returned =>
       /\ call.logs =
            IF /\ call.s.code = "OK"
               /\ call.wait => call.w.code = "OK"
               /\ ~call.suppressed
            THEN 1 ELSE 0
       /\ result.code # "OK" => call.logs = 0
       /\ (result.code = "OK" /\ ~call.suppressed) => call.logs = 1

C14_Witness ==
  /\ Returned
  /\ call.s.code = "OK"
  /\ call.wait
  /\ call.w.code = "OK"
  /\ ~call.suppressed
  /\ call.logs = 1
  /\ result.code = "OK"

\* C15: when the topology query of a call fails, Create() returns that failure
\* unchanged and has computed no deadline, sent no creation request and
\* invoked no readiness wait.
C15_TopologyFailureAborts ==
  (call.n > 0 /\ call.topo_status.code \notin {"none", "OK"}) =>
    /\ call.topo = 1
    /\ pc = "idle"
    /\ result = call.topo_status
    /\ call.deadlines = 0
    /\ call.t0 = -1
    /\ call.sent = 0
    /\ call.waits = 0
    /\ rpc.state = "none"

C15_Witness ==
  /\ Returned
  /\ call.topo = 1
  /\ call.topo_status.code = "IllegalState"
  /\ result.code = "IllegalState"
  /\ call.type = "REDIS_TABLE_TYPE"
  /\ catalog = <<>>

\* C16: whenever Create() is not running, schema_ is what the caller made it:
\* null or a caller-owned schema, never the schema a call synthesized.
C16_SynthesizedSchemaDoesNotLeak ==
  pc = "idle" => schema_.ptr \in {"null", "ext"}

\* C17: a Create() with a non-empty name, a Redis or transaction-status kind
\* and a caller-supplied schema ends the process at the CHECK: it returns no
\* status and has made no topology query, creation request or readiness wait.
C17_SuppliedSchemaAborts ==
  (call.n > 0 /\ call.name.table # "" /\ SynthKind(call.type)
     /\ call.schema.ptr = "ext") =>
    /\ pc = "aborted"
    /\ call.topo = 0
    /\ call.deadlines = 0
    /\ call.sent = 0
    /\ call.waits = 0
    /\ rpc.state = "none"

C17_Witness ==
  /\ pc = "aborted"
  /\ call.name.table # ""
  /\ call.type = "TRANSACTION_STATUS_TABLE_TYPE"
  /\ call.schema.ptr = "ext"
  /\ call.sent = 0

\* A creator on which table_name() and table_type() have been called: the
\* start of the runs that go on to describe an index. The two calls are
\* counted as one of the setter calls of a run, which leaves room for the
\* calls that describe the index.
InitIndex ==
  /\ table_name_ = [ns |-> "user", table |-> "t"]
  /\ table_type_ = "REDIS_TABLE_TYPE"
  /\ creator_role_name_ = ""
  /\ table_id_ = EmptyId
  /\ num_tablets_ = 0
  /\ schema_ = NullSchema
  /\ index_info_ = DefaultIndexInfo
  /\ timeout_ = NoTimeout
  /\ wait_ = TRUE
  /\ pc = "idle"
  /\ req = NoRequest
  /\ deadline = -1
  /\ s = NoStatus
  /\ rpc = NoRpc
  /\ waiter = NoWaiter
  /\ catalog = <<>>
  /\ now = 0
  /\ result = NoStatus
  /\ call = NoCall
  /\ ncalls = 0
  /\ nsetters = 1

SpecIndex == InitIndex /\ [][Next]_vars

\* C18: the creation request carries the index description exactly when the
\* indexed-table id was set on the creator; then the legacy fields (indexed
\* table id, local flag, unique flag) are set too and equal those of the
\* description, which is the creator's; otherwise neither the description nor
\* a legacy field is set, whatever flags were set on the creator.
C18_IndexInfoAndLegacyFields ==
  call.sent = 1 =>
    /\ call.req.has_index_info = call.index_info.has_indexed_table_id
    /\ call.req.has_index_info =>
         /\ call.req.index_info = call.index_info
         /\ call.req.has_indexed_table_id
         /\ call.req.has_is_local_index
         /\ call.req.has_is_unique_index
         /\ call.req.indexed_table_id = call.req.index_info.indexed_table_id
         /\ call.req.is_local_index = call.req.index_info.is_local
         /\ call.req.is_unique_index = call.req.index_info.is_unique
    /\ ~call.req.has_index_info =>
         /\ ~call.req.has_indexed_table_id
         /\ ~call.req.has_is_local_index
         /\ ~call.req.has_is_unique_index

C18_Witness ==
  /\ call.sent = 1
  /\ call.req.has_index_info
  /\ call.req.indexed_table_id = "base"
  /\ call.req.index_info.is_local
  /\ call.req.is_local_index
  /\ ~call.req.is_unique_index

\* C19: in every creation request sent, the request's tablet count and the
\* tablet count in the table properties of its schema are both the resolved
\* tablet count, and the request in flight is that request.
C19_RequestAndSchemaTabletCounts ==
  /\ call.sent = 1 =>
       /\ call.req.schema.num_tablets = call.req.num_tablets
       /\ call.req.schema.num_tablets =
            IF call.explicit > 0 THEN call.explicit
            ELSE IF C5_Declared > 0 THEN C5_Declared
            ELSE IF call.name.ns = "system" THEN 1
            ELSE call.recommended
  /\ rpc.state # "none" => rpc.req = call.req

C19_Witness ==
  /\ call.sent = 1
  /\ call.explicit = 0
  /\ call.schema = [ptr |-> "ext", num_tablets |-> 0]
  /\ call.topo = 1
  /\ call.req.schema.num_tablets = 2
  /\ call.req.num_tablets = 2

\* C20: a call that sends the creation request has stored the count it sends
\* in num_tablets_, where it stays unless the caller sets the count again; a
\* later call that starts with that count sends it again by the explicit-count
\* rule, without a topology query and whatever the schema declares.
C20_TabletCountWrittenBack ==
  /\ (pc # "idle" /\ call.sent = 1) =>
       (num_tablets_ = call.req.num_tablets /\ num_tablets_ > 0)
  /\ (Returned /\ call.sent = 1 /\ num_tablets_ # call.req.num_tablets) =>
       num_tablets_ \in ExplicitCounts
  /\ (call.n > 1 /\ call.prev_sent > 0 /\ call.explicit = call.prev_sent) =>
       /\ call.topo = 0
       /\ call.sent = 1 => call.req.num_tablets = call.prev_sent

C20_Witness ==
  /\ call.n = 2
  /\ call.sent = 1
  /\ call.prev_sent = 2
  /\ call.explicit = 2
  /\ call.schema = [ptr |-> "ext", num_tablets |-> 3]
  /\ call.topo = 0
  /\ call.req.num_tablets = 2

====
